---------------------------- MODULE Spec2Model ----------------------------
(***************************************************************************)
(* A model of zecli: the `init` command (src/src/init.rs, its copy in     *)
(* src/src/main.rs, and the config writer of src/src/config.rs) run by    *)
(* concurrent processes over one wallet directory and one identity path,  *)
(* and the account selection of the `balance` command                     *)
(* (src/src/balance.rs).                                                   *)
(***************************************************************************)
EXTENDS Integers, Sequences, FiniteSets, TLC

(***************************************************************************)
(* Bounds and program constants                                            *)
(***************************************************************************)

\* Option::None for an Option<u32> / Option<BlockHeight> / Option<Uuid>.
None == -1

\* chain_tip.saturating_sub(100): the default birthday's margin below the tip.
Margin == 100

\* How far above Margin the highest modelled chain tip lies.
TipAbove == 1

\* The number of account identifiers the wallet database may hold.
MaxAccountId == 3

\* The longest account list get_account_ids returns in the model.
MaxAccounts == 3

\* The largest exchange rate the rate source returns in the model.
MaxRate == 2

\* The largest spendable value of a pool, in zatoshis.
MaxAmount == 1

\* The largest numerator and denominator of a progress ratio.
MaxProgress == 2

\* The concurrent (or successive) runs of `init` on the same paths.
Procs == {"r1", "r2"}

\* Heights get_latest_block may return: below, just below and above Margin.
Tips == {0, Margin - 1, Margin + TipAbove}

\* opts.birthday: absent, zero, or a height above every modelled tip.
Birthdays == {None, 0, Margin + TipAbove + 1}

Networks == {"test", "main"}

\* What the user types at the mnemonic prompt: a word count and whether the
\* words and checksum are valid.
EmptyPhrase == [words |-> 0, valid |-> FALSE]
Phrases == {EmptyPhrase, [words |-> 12, valid |-> TRUE],
            [words |-> 24, valid |-> FALSE]}

VARIABLES
    \* ---- the file system and the wallet engine (shared by all runs) ----
    idFile,      \* the identity file: [creator, lines, garbage]
    walletDir,   \* who created the wallet directory ("none": absent)
    config,      \* keys.toml: [creator, written, content]
    walletDb,    \* who created the wallet database ("none": absent)
    accounts,    \* the runs whose create_account succeeded
    \* ---- per run of init ----
    pc,          \* position in InitOptions::run
    err,         \* the error run returned ("" while none)
    chain_tip,   \* let chain_tip
    recipients,  \* let recipients (a set of public keys)
    phrase,      \* let phrase
    mnemonic,    \* let mnemonic
    recover_until,
    explicit,    \* opts.birthday
    birthday_height, \* get_wallet_birthday's argument
    request,     \* the height of the BlockId sent to get_tree_state
    birthday,    \* let birthday: AccountBirthday
    seedArr,     \* the [u8; 64] to_seed returned
    secret,      \* the SecretVec<u8>
    \* ---- history of a run (never read by the program) ----
    netOk,       \* the network calls that have succeeded
    sawIdentity, \* try_exists returned true
    generated,   \* Identity::generate() was called
    sawConfig,   \* create_new found keys.toml present
    createCalls, \* how many times run called create_account
    \* ---- the balance command ----
    bPc, account_ids, account_uuid, bAccount, bErr,
    bAddress,    \* let address
    convert,     \* self.convert
    printer,     \* let printer: ValuePrinter
    fetches,     \* the exchange-rate requests sent
    warned,      \* the currencies warn! reported as unsupported
    summary,     \* what get_wallet_summary returned
    output       \* the lines printed to standard output

fsVars == <<idFile, walletDir, config, walletDb, accounts>>
runVars == <<pc, err, chain_tip, recipients, phrase, mnemonic, recover_until,
             explicit, birthday_height, request, birthday, seedArr, secret>>
histVars == <<netOk, sawIdentity, generated, sawConfig>>
callVars == <<createCalls>>
balVars == <<bPc, account_ids, account_uuid, bAccount, bErr, bAddress,
             convert, printer, fetches, warned, summary, output>>
vars == <<fsVars, runVars, histVars, callVars, balVars>>

(***************************************************************************)
(* Pure functions of the code                                              *)
(***************************************************************************)

\* u32::saturating_sub / u64::saturating_sub
SatSub(a, b) == IF a >= b THEN a - b ELSE 0

\* A buggy default: the chain tip itself, as the option's help text says.
EffectiveBirthdayAtTip(opt, tip) == IF opt # None THEN opt ELSE tip

\* opts.birthday.unwrap_or(chain_tip.saturating_sub(100))
EffectiveBirthday(opt, tip) == IF opt # None THEN opt ELSE SatSub(tip, Margin)

\* A buggy request: the birthday height itself.
TreeStateRequestAtBirthday(h) == h

\* BlockId { height: u64::from(birthday_height).saturating_sub(1) }
TreeStateRequestHeight(h) == SatSub(h, 1)

NoBirthday == [height |-> None, recover_until |-> None]

\* AccountBirthday::from_treestate(treestate, recover_until): the checkpoint is
\* the chain state at the tree state's height, and the birthday is the block
\* after it.
FromTreestate(treestateHeight, recover) ==
    [height |-> treestateHeight + 1, recover_until |-> recover]

NoMnemonic == [words |-> 0, generated |-> FALSE]

\* A buggy prompt handling: recover_until is set for a generated mnemonic too.
ObtainMnemonicAlwaysRecover(ph, tip) ==
    IF ph.words # 0
    THEN [ok |-> ph.valid /\ ph.words \in {12, 15, 18, 21, 24},
          mnemonic |-> [words |-> ph.words, generated |-> FALSE],
          recover_until |-> tip]
    ELSE [ok |-> TRUE,
          mnemonic |-> [words |-> 24, generated |-> TRUE],
          recover_until |-> tip]

\* if !phrase.is_empty() { (Mnemonic::from_phrase(phrase)?, Some(chain_tip)) }
\* else { (Mnemonic::generate(Count::Words24), None) }
ObtainMnemonic(ph, tip) ==
    IF ph.words # 0
    THEN [ok |-> ph.valid /\ ph.words \in {12, 15, 18, 21, 24},
          mnemonic |-> [words |-> ph.words, generated |-> FALSE],
          recover_until |-> tip]
    ELSE [ok |-> TRUE,
          mnemonic |-> [words |-> 24, generated |-> TRUE],
          recover_until |-> None]

NoFile == [creator |-> "none", lines |-> 0, garbage |-> FALSE]

\* age::IdentityFile::from_file(path)?.to_recipients()?: comment lines are
\* skipped, a line that is no identity is an error, and every identity line
\* gives one recipient. The generated file holds two comment lines and then the
\* secret key.
ParseIdentityFile(f) ==
    IF f.garbage
    THEN [ok |-> FALSE, recipients |-> {}]
    ELSE [ok |-> TRUE,
          recipients |-> IF f.lines >= 3 THEN {f.creator} ELSE {}]

\* A buggy create: File::create, which truncates a file that is there.
CreateTruncateIdentity(f, p) ==
    [ok |-> TRUE, file |-> [creator |-> p, lines |-> 0, garbage |-> FALSE]]

\* tokio::fs::File::create_new(opts.identity)
CreateNewIdentity(f, p) ==
    IF f.creator # "none"
    THEN [ok |-> FALSE, file |-> f]
    ELSE [ok |-> TRUE, file |-> [creator |-> p, lines |-> 0, garbage |-> FALSE]]

NoCipher == [to |-> {}, plain |-> NoMnemonic]

\* encrypt_mnemonic: age::Encryptor::with_recipients fails without recipients.
EncryptMnemonic(rs, m) ==
    [ok |-> rs # {}, cipher |-> [to |-> rs, plain |-> m]]

NoContent == [mnemonic |-> NoCipher, network |-> "", birthday |-> None]
NoConfig == [creator |-> "none", written |-> FALSE, content |-> NoContent]

\* A buggy open: create(true).truncate(true), which empties a file that is there.
OpenKeysFileTruncate(c, p) ==
    [ok |-> TRUE,
     file |-> [creator |-> p, written |-> FALSE, content |-> NoContent]]

\* fs::OpenOptions::new().create_new(true).write(true).open(p)
OpenKeysFile(c, p) ==
    IF c.creator # "none"
    THEN [ok |-> FALSE, file |-> c]
    ELSE [ok |-> TRUE,
          file |-> [creator |-> p, written |-> FALSE, content |-> NoContent]]

\* ConfigEncoding { mnemonic, network: Some(name), birthday: Some(u32) }
ConfigEncoding(cipher, net, height) ==
    [mnemonic |-> cipher, network |-> net, birthday |-> height]

\* A buggy seed block: seed.zeroize() left out.
SeedBlockNoZeroize == [seedArr |-> "live", secret |-> "live"]

\* let mut seed = mnemonic.to_seed(""); let secret = seed.to_vec();
\* seed.zeroize(); SecretVec::new(secret)
SeedBlock == [seedArr |-> "wiped", secret |-> "live"]

\* A buggy drop: a plain Vec<u8>, freed without being wiped.
DropPlainVec(s) == s

\* Drop of SecretVec<u8>: the bytes are zeroized (nothing to wipe before the
\* seed block ran).
DropSecretVec(s) == IF s = "live" THEN "wiped" ELSE s

\* A buggy order of run's steps: the config is written before the tree state
\* is fetched.
StepAfterConfigFirst(step) ==
    CASE step = "prompt" -> "encrypt"
      [] step = "encrypt" -> "openkeys"
      [] step = "openkeys" -> "writekeys"
      [] step = "writekeys" -> "treestate"
      [] step = "treestate" -> "seed"
      [] step = "seed" -> "opendb"
      [] step = "opendb" -> "account"
      [] step = "account" -> "done"

\* A buggy order of run's steps: the account is created before the config is
\* written.
StepAfterAccountFirst(step) ==
    CASE step = "prompt" -> "treestate"
      [] step = "treestate" -> "seed"
      [] step = "seed" -> "opendb"
      [] step = "opendb" -> "account"
      [] step = "account" -> "encrypt"
      [] step = "encrypt" -> "openkeys"
      [] step = "openkeys" -> "writekeys"
      [] step = "writekeys" -> "done"

\* The order of run's statements after the identity is obtained.
StepAfter(step) ==
    CASE step = "prompt" -> "treestate"
      [] step = "treestate" -> "encrypt"
      [] step = "encrypt" -> "openkeys"
      [] step = "openkeys" -> "writekeys"
      [] step = "writekeys" -> "seed"
      [] step = "seed" -> "opendb"
      [] step = "opendb" -> "account"
      [] step = "account" -> "done"

(***************************************************************************)
(* The init command                                                        *)
(***************************************************************************)

\* run returns Err(e): its locals are dropped, the SecretVec among them.
Fail(p, e) ==
    /\ pc' = [pc EXCEPT ![p] = "failed"]
    /\ err' = [err EXCEPT ![p] = e]
    /\ secret' = [secret EXCEPT ![p] = DropSecretVec(secret[p])]

Goto(p, step) ==
    /\ pc' = [pc EXCEPT ![p] = step]
    /\ UNCHANGED <<err, secret>>

\* server.connect(..).await? and client.get_latest_block(..).await?
GetLatestBlock(p) ==
    /\ pc[p] = "latest"
    /\ \/ /\ Fail(p, "Network")
          /\ UNCHANGED <<chain_tip, netOk>>
       \/ \E t \in Tips :
            /\ chain_tip' = [chain_tip EXCEPT ![p] = t]
            /\ netOk' = [netOk EXCEPT ![p] = @ \cup {"latest"}]
            /\ Goto(p, "exists")
    /\ UNCHANGED <<fsVars, recipients, phrase, mnemonic, recover_until,
                   explicit, birthday_height, request, birthday, seedArr,
                   sawIdentity, generated, sawConfig, callVars, balVars>>

\* if tokio::fs::try_exists(&opts.identity).await?
TryExists(p) ==
    /\ pc[p] = "exists"
    /\ sawIdentity' = [sawIdentity EXCEPT ![p] = idFile.creator # "none"]
    /\ Goto(p, IF idFile.creator # "none" THEN "load" ELSE "generate")
    /\ UNCHANGED <<fsVars, chain_tip, recipients, phrase, mnemonic,
                   recover_until, explicit, birthday_height, request,
                   birthday, seedArr, netOk, generated, sawConfig, callVars, balVars>>

\* age::IdentityFile::from_file(opts.identity)?.to_recipients()?
LoadIdentity(p) ==
    /\ pc[p] = "load"
    /\ LET r == ParseIdentityFile(idFile) IN
         IF r.ok
         THEN /\ recipients' = [recipients EXCEPT ![p] = r.recipients]
              /\ Goto(p, "prompt")
         ELSE /\ Fail(p, "IdentityFileInvalid")
              /\ UNCHANGED recipients
    /\ UNCHANGED <<fsVars, chain_tip, phrase, mnemonic, recover_until,
                   explicit, birthday_height, request, birthday, seedArr,
                   histVars, callVars, balVars>>

\* Identity::generate(), identity.to_public(), File::create_new(..).await?
GenerateIdentity(p) ==
    /\ pc[p] = "generate"
    /\ generated' = [generated EXCEPT ![p] = TRUE]
    /\ LET r == CreateNewIdentity(idFile, p) IN
         /\ idFile' = r.file
         /\ IF r.ok THEN Goto(p, "idwrite") ELSE Fail(p, "IdentityAlreadyExists")
    /\ UNCHANGED <<walletDir, config, walletDb, accounts, chain_tip,
                   recipients, phrase, mnemonic, recover_until, explicit,
                   birthday_height, request, birthday, seedArr, netOk,
                   sawIdentity, sawConfig, callVars, balVars>>

\* The three f.write_all(..).await? and f.flush().await?: the created comment,
\* the public key comment, the secret key; then vec![Box::new(recipient)].
WriteIdentity(p) ==
    /\ pc[p] = "idwrite"
    /\ \/ /\ Fail(p, "Io")
          /\ UNCHANGED <<idFile, recipients>>
       \/ /\ idFile' = [idFile EXCEPT !.lines = @ + 1]
          /\ IF idFile.lines + 1 = 3
             THEN /\ recipients' = [recipients EXCEPT ![p] = {p}]
                  /\ Goto(p, "prompt")
             ELSE /\ UNCHANGED recipients
                  /\ Goto(p, "idwrite")
    /\ UNCHANGED <<walletDir, config, walletDb, accounts, chain_tip, phrase,
                   mnemonic, recover_until, explicit, birthday_height, request,
                   birthday, seedArr, histVars, callVars, balVars>>

\* rpassword::prompt_password(..)? and the parse or generation of the mnemonic
PromptMnemonic(p) ==
    /\ pc[p] = "prompt"
    /\ \E ph \in Phrases :
         LET r == ObtainMnemonic(ph, chain_tip[p]) IN
           /\ phrase' = [phrase EXCEPT ![p] = ph]
           /\ IF r.ok
              THEN /\ mnemonic' = [mnemonic EXCEPT ![p] = r.mnemonic]
                   /\ recover_until' =
                        [recover_until EXCEPT ![p] = r.recover_until]
                   /\ Goto(p, StepAfter("prompt"))
              ELSE /\ Fail(p, "InvalidMnemonic")
                   /\ UNCHANGED <<mnemonic, recover_until>>
    /\ UNCHANGED <<fsVars, chain_tip, recipients, explicit, birthday_height,
                   request, birthday, seedArr, histVars, callVars, balVars>>

\* Self::get_wallet_birthday(client, effective height, recover_until).await?
GetWalletBirthday(p) ==
    /\ pc[p] = "treestate"
    /\ \E b \in Birthdays :
         LET h == EffectiveBirthday(b, chain_tip[p])
             req == TreeStateRequestHeight(h)
         IN /\ explicit' = [explicit EXCEPT ![p] = b]
            /\ birthday_height' = [birthday_height EXCEPT ![p] = h]
            /\ request' = [request EXCEPT ![p] = req]
            /\ \/ /\ Fail(p, "Network")
                  /\ UNCHANGED <<birthday, netOk>>
               \/ /\ Fail(p, "InvalidTreeState")
                  /\ netOk' = [netOk EXCEPT ![p] = @ \cup {"treestate"}]
                  /\ UNCHANGED birthday
               \/ /\ birthday' = [birthday EXCEPT ![p] =
                                    FromTreestate(req, recover_until[p])]
                  /\ netOk' = [netOk EXCEPT ![p] = @ \cup {"treestate"}]
                  /\ Goto(p, StepAfter("treestate"))
    /\ UNCHANGED <<fsVars, chain_tip, recipients, phrase, mnemonic,
                   recover_until, seedArr, sawIdentity, generated, sawConfig,
                   callVars, balVars>>

\* WalletConfig::init_with_mnemonic: encrypt_mnemonic(recipients, mnemonic)?
\* and then init_wallet_config's fs::create_dir_all(wallet_dir)?
InitWithMnemonic(p) ==
    /\ pc[p] = "encrypt"
    /\ LET e == EncryptMnemonic(recipients[p], mnemonic[p]) IN
         IF ~e.ok
         THEN /\ Fail(p, "MissingRecipients")
              /\ UNCHANGED walletDir
         ELSE \/ /\ Fail(p, "Io")
                 /\ UNCHANGED walletDir
              \/ /\ walletDir' = IF walletDir = "none" THEN p ELSE walletDir
                 /\ Goto(p, StepAfter("encrypt"))
    /\ UNCHANGED <<idFile, config, walletDb, accounts, chain_tip, recipients,
                   phrase, mnemonic, recover_until, explicit, birthday_height,
                   request, birthday, seedArr, histVars, callVars, balVars>>

\* init_wallet_config: the exclusive create of keys.toml
OpenKeys(p) ==
    /\ pc[p] = "openkeys"
    /\ LET r == OpenKeysFile(config, p) IN
         /\ config' = r.file
         /\ sawConfig' = [sawConfig EXCEPT ![p] = config.creator # "none"]
         /\ IF r.ok
            THEN Goto(p, StepAfter("openkeys"))
            ELSE Fail(p, "ConfigAlreadyExists")
    /\ UNCHANGED <<idFile, walletDir, walletDb, accounts, chain_tip,
                   recipients, phrase, mnemonic, recover_until, explicit,
                   birthday_height, request, birthday, seedArr, netOk,
                   sawIdentity, generated, callVars, balVars>>

\* init_wallet_config: toml::to_string(&config) and write!(keys_file, ..)?
WriteKeys(p) ==
    /\ pc[p] = "writekeys"
    /\ \/ /\ Fail(p, "Io")
          /\ UNCHANGED config
       \/ \E net \in Networks :
            /\ config' = [config EXCEPT
                 !.written = TRUE,
                 !.content = ConfigEncoding(
                     EncryptMnemonic(recipients[p], mnemonic[p]).cipher,
                     net, birthday[p].height)]
            /\ Goto(p, StepAfter("writekeys"))
    /\ UNCHANGED <<idFile, walletDir, walletDb, accounts, chain_tip,
                   recipients, phrase, mnemonic, recover_until, explicit,
                   birthday_height, request, birthday, seedArr, histVars,
                   callVars, balVars>>

\* let seed = { .. }: the seed is derived, copied into the SecretVec, and the
\* array is zeroized.
DeriveSeed(p) ==
    /\ pc[p] = "seed"
    /\ seedArr' = [seedArr EXCEPT ![p] = SeedBlock.seedArr]
    /\ pc' = [pc EXCEPT ![p] = StepAfter("seed")]
    /\ secret' = [secret EXCEPT ![p] = SeedBlock.secret]
    /\ UNCHANGED <<fsVars, err, chain_tip, recipients, phrase, mnemonic,
                   recover_until, explicit, birthday_height, request,
                   birthday, histVars, callVars, balVars>>

\* Self::init_dbs: let mut db_data = init_dbs(params, wallet_dir)?
InitDbs(p) ==
    /\ pc[p] = "opendb"
    /\ \/ /\ Fail(p, "Storage")
          /\ UNCHANGED walletDb
       \/ /\ walletDb' = IF walletDb = "none" THEN p ELSE walletDb
          /\ Goto(p, StepAfter("opendb"))
    /\ UNCHANGED <<idFile, walletDir, config, accounts, chain_tip, recipients,
                   phrase, mnemonic, recover_until, explicit, birthday_height,
                   request, birthday, seedArr, histVars, callVars, balVars>>

\* Self::init_dbs: db_data.create_account(name, seed, &birthday, key_source)?
\* and run's return, which drops the SecretVec.
CreateAccount(p) ==
    /\ pc[p] = "account"
    /\ createCalls' = [createCalls EXCEPT ![p] = @ + 1]
    /\ \/ /\ Fail(p, "CreateAccount")
          /\ UNCHANGED accounts
       \/ /\ accounts' = accounts \cup {p}
          /\ pc' = [pc EXCEPT ![p] = StepAfter("account")]
          /\ secret' = [secret EXCEPT ![p] = DropSecretVec(secret[p])]
          /\ UNCHANGED err
    /\ UNCHANGED <<idFile, walletDir, config, walletDb, chain_tip, recipients,
                   phrase, mnemonic, recover_until, explicit, birthday_height,
                   request, birthday, seedArr, histVars, balVars>>

\* The points at which run awaits: an interruption of the process there skips
\* everything that follows.
AwaitPoints == {"latest", "exists", "generate", "idwrite", "treestate"}

Cancel(p) ==
    /\ pc[p] \in AwaitPoints
    /\ pc' = [pc EXCEPT ![p] = "cancelled"]
    /\ UNCHANGED <<fsVars, err, chain_tip, recipients, phrase, mnemonic,
                   recover_until, explicit, birthday_height, request,
                   birthday, seedArr, secret, histVars, callVars, balVars>>

\* The identity file found at the start: absent, left empty, holding one
\* identity, or holding a line that is no identity.
IdentityFilesAtStart ==
    {NoFile,
     [creator |-> "env", lines |-> 0, garbage |-> FALSE],
     [creator |-> "env", lines |-> 3, garbage |-> FALSE],
     [creator |-> "env", lines |-> 1, garbage |-> TRUE]}

\* Option::None for self.convert.
NoCurrency == "none"

\* ValuePrinter::ZecOnly
ZecOnly == [conversion |-> FALSE, currency |-> NoCurrency, rate |-> 0]

\* Option::None for progress().recovery().
NoRatio == [some |-> FALSE, n |-> 0, d |-> 0]

\* get_wallet_summary returned None: the wallet has not been synced.
NoSummary ==
    [some |-> FALSE, holds |-> {}, sapling |-> 0, orchard |-> 0,
     scan |-> NoRatio, recovery |-> NoRatio]

\* The balance command's locals before anything is bound.
BalanceLocalsUnset ==
    /\ bAccount = None
    /\ bErr = ""
    /\ bAddress = None
    /\ convert = NoCurrency
    /\ printer = ZecOnly
    /\ fetches = 0
    /\ warned = {}
    /\ summary = NoSummary
    /\ output = <<>>

BalanceIdle ==
    /\ bPc = "idle"
    /\ account_ids = <<>>
    /\ account_uuid = None
    /\ BalanceLocalsUnset

Init ==
    /\ idFile \in IdentityFilesAtStart
    /\ walletDir = "none"
    /\ config = NoConfig
    /\ walletDb = "none"
    /\ accounts = {}
    /\ pc = [p \in Procs |-> "latest"]
    /\ err = [p \in Procs |-> ""]
    /\ chain_tip = [p \in Procs |-> None]
    /\ recipients = [p \in Procs |-> {}]
    /\ phrase = [p \in Procs |-> EmptyPhrase]
    /\ mnemonic = [p \in Procs |-> NoMnemonic]
    /\ recover_until = [p \in Procs |-> None]
    /\ explicit = [p \in Procs |-> None]
    /\ birthday_height = [p \in Procs |-> None]
    /\ request = [p \in Procs |-> None]
    /\ birthday = [p \in Procs |-> NoBirthday]
    /\ seedArr = [p \in Procs |-> "none"]
    /\ secret = [p \in Procs |-> "none"]
    /\ netOk = [p \in Procs |-> {}]
    /\ sawIdentity = [p \in Procs |-> FALSE]
    /\ generated = [p \in Procs |-> FALSE]
    /\ sawConfig = [p \in Procs |-> FALSE]
    /\ createCalls = [p \in Procs |-> 0]
    /\ BalanceIdle

Next ==
    \E p \in Procs :
        \/ GetLatestBlock(p)
        \/ TryExists(p)
        \/ LoadIdentity(p)
        \/ GenerateIdentity(p)
        \/ WriteIdentity(p)
        \/ PromptMnemonic(p)
        \/ GetWalletBirthday(p)
        \/ InitWithMnemonic(p)
        \/ OpenKeys(p)
        \/ WriteKeys(p)
        \/ DeriveSeed(p)
        \/ InitDbs(p)
        \/ CreateAccount(p)
        \/ Cancel(p)

Spec == Init /\ [][Next]_vars

(***************************************************************************)
(* Properties of the init command                                          *)
(***************************************************************************)

\* C1: an init whose exclusive create finds keys.toml already present fails
\* with ConfigAlreadyExists, whatever mnemonic, birthday and network it was
\* given, and leaves the file as it found it; a config file that has been
\* written is never changed again.
ReinitFailsAndKeepsConfig ==
    [][/\ \A p \in Procs :
            sawConfig'[p] =>
                pc'[p] = "failed" /\ err'[p] = "ConfigAlreadyExists"
       /\ \A p \in Procs :
            (pc[p] = "openkeys" /\ pc'[p] # "openkeys"
                /\ config.creator # "none") => config' = config
       /\ (config.written => config' = config)]_vars

\* C1's case: a run has failed on a config file another run had written.
ReinitRefused ==
    \E p \in Procs :
        /\ sawConfig[p]
        /\ pc[p] = "failed"
        /\ config.written
        /\ config.creator \in Procs \ {p}

\* What run p has left on disk and in the wallet engine.
Leftovers(p) ==
    {k \in {"identity", "walletDir", "config", "walletDb", "account"} :
        \/ k = "identity" /\ idFile.creator = p
        \/ k = "walletDir" /\ walletDir = p
        \/ k = "config" /\ config.creator = p
        \/ k = "walletDb" /\ walletDb = p
        \/ k = "account" /\ p \in accounts}

\* C2: a run creates the wallet directory and the config file only after both
\* of its network calls have succeeded, and a run that ended without creating
\* the config file has left at most an identity file and the wallet directory.
ConfigAfterNetworkCalls ==
    \A p \in Procs :
        /\ (Leftovers(p) \cap {"walletDir", "config"} # {}
                => netOk[p] = {"latest", "treestate"})
        /\ (pc[p] \in {"failed", "cancelled"} /\ config.creator # p
                => Leftovers(p) \subseteq {"identity", "walletDir"})

\* C2's case: a run failed at the tree-state call after writing a whole
\* identity file, and no config file is there.
FailedBeforeConfig ==
    \E p \in Procs :
        /\ pc[p] = "failed"
        /\ err[p] \in {"Network", "InvalidTreeState"}
        /\ "latest" \in netOk[p]
        /\ Leftovers(p) = {"identity"}
        /\ idFile.lines = 3
        /\ config = NoConfig

\* C3: when run has returned, with success or with an error, neither the seed
\* array nor the secret buffer still holds the seed.
SeedWipedOnReturn ==
    \A p \in Procs :
        pc[p] \in {"done", "failed"} =>
            seedArr[p] # "live" /\ secret[p] # "live"

\* C3's case: account provisioning failed after the seed was derived.
ProvisioningFailedSeedWiped ==
    \E p \in Procs :
        /\ pc[p] = "failed"
        /\ err[p] \in {"Storage", "CreateAccount"}
        /\ seedArr[p] = "wiped"
        /\ secret[p] = "wiped"

\* C4: an identity file that exists keeps its creator and its lines; a run
\* that found the file generates no key pair and reads the identity that is
\* in it; a run that generated a key pair and then finds the file created by
\* another fails without touching it.
IdentityCreatedOnce ==
    [][/\ (idFile.creator # "none" =>
              /\ idFile'.creator = idFile.creator
              /\ idFile'.garbage = idFile.garbage
              /\ idFile'.lines >= idFile.lines)
       /\ \A p \in Procs :
            /\ (sawIdentity'[p] => ~generated'[p])
            /\ (idFile'.creator = p => generated'[p])
            /\ (idFile'.lines # idFile.lines =>
                    (pc[p] # pc'[p] => idFile.creator = p))
            /\ (pc[p] = "load" /\ pc'[p] = "prompt" =>
                    /\ idFile' = idFile
                    /\ recipients'[p] \subseteq {idFile.creator})
            /\ (pc[p] = "generate" /\ generated'[p]
                    /\ idFile.creator # "none" =>
                    /\ pc'[p] = "failed"
                    /\ err'[p] = "IdentityAlreadyExists"
                    /\ idFile' = idFile)]_vars

\* C4's case: two runs raced to create the identity file; one lost and failed,
\* and the winner's file is whole.
IdentityRaceLost ==
    \E p \in Procs :
        /\ err[p] = "IdentityAlreadyExists"
        /\ generated[p]
        /\ idFile.creator \in Procs \ {p}
        /\ idFile.lines = 3

\* C5: a run that found a file at the identity path goes on to the mnemonic
\* prompt, the tree-state request and the config write only with a recipient
\* parsed from it.
NoEmptyRecipientSet ==
    \A p \in Procs :
        (sawIdentity[p]
            /\ pc[p] \in {"prompt", "treestate", "encrypt", "openkeys",
                          "writekeys"})
            => recipients[p] # {}

TreeStateRequestPrecedesBirthday ==
    \A p \in Procs :
        request[p] # None =>
            /\ (birthday_height[p] >= 1 =>
                    request[p] = birthday_height[p] - 1)
            /\ (birthday_height[p] = 0 => request[p] = 0)

\* C7's case: an explicit birthday of 0.
TreeStateRequestedForZero ==
    \E p \in Procs :
        /\ explicit[p] = 0
        /\ birthday_height[p] = 0
        /\ request[p] = 0

\* C8: the checkpoint's recover_until is present exactly when the phrase
\* entered was not empty, and is then the tip this run observed; on an empty
\* phrase the mnemonic is a generated one of 24 words.
RecoverUntilIffMnemonicSupplied ==
    \A p \in Procs :
        birthday[p] # NoBirthday =>
            /\ (birthday[p].recover_until # None <=> phrase[p].words # 0)
            /\ (birthday[p].recover_until # None =>
                    birthday[p].recover_until = chain_tip[p])
            /\ (phrase[p].words = 0 =>
                    mnemonic[p] = [words |-> 24, generated |-> TRUE])
            /\ (phrase[p].words # 0 => ~mnemonic[p].generated)

\* C8's case: a checkpoint built for a supplied mnemonic.
RecoveryCheckpointBuilt ==
    \E p \in Procs :
        /\ birthday[p] # NoBirthday
        /\ phrase[p].words = 12
        /\ birthday[p].recover_until = Margin + TipAbove

\* C9: after a successful init the birthday in the config file is the
\* effective birthday height of that run.
ConfigBirthdayIsEffective ==
    \A p \in Procs :
        (pc[p] = "done" /\ config.creator = p) =>
            /\ config.written
            /\ config.content.birthday = birthday_height[p]

\* C16: a run calls create_account at most once and only with its own config
\* file written; an account a run created has that run's config file beside
\* it; when opening the storage or creating the account fails the written
\* config file stays, and a run that finds it fails with ConfigAlreadyExists
\* without calling create_account.
AccountOnlyAfterConfig ==
    \A p \in Procs :
        /\ createCalls[p] <= 1
        /\ (createCalls[p] = 1 \/ p \in accounts
                => config.creator = p /\ config.written)
        /\ (pc[p] = "failed" /\ err[p] \in {"Storage", "CreateAccount"}
                => config.creator = p /\ config.written /\ p \notin accounts)
        /\ (sawConfig[p]
                => /\ pc[p] = "failed" /\ err[p] = "ConfigAlreadyExists"
                   /\ createCalls[p] = 0 /\ p \notin accounts)

\* C16's case: create_account failed after the config was written, and the
\* next init on the directory was refused, so the wallet has no account.
AccountFailedConfigStays ==
    \E p, q \in Procs :
        /\ pc[p] = "failed" /\ err[p] = "CreateAccount"
        /\ createCalls[p] = 1
        /\ config.creator = p /\ config.written
        /\ sawConfig[q] /\ err[q] = "ConfigAlreadyExists"
        /\ accounts = {}

(***************************************************************************)
(* The balance command: account selection                                  *)
(***************************************************************************)

AccountIds == 1 .. MaxAccountId

\* What get_account_ids may return: the wallet's accounts, each once.
AccountLists ==
    {l \in UNION {[1 .. n -> AccountIds] : n \in 0 .. MaxAccounts} :
        \A i, j \in 1 .. Len(l) : i # j => l[i] # l[j]}

\* The identifiers a caller may pass: none, one of the wallet's, a foreign one.
RequestedIds == {None} \cup AccountIds \cup {MaxAccountId + 1}

Range(l) == {l[i] : i \in 1 .. Len(l)}

\* db_data.get_account(account_id)?: Some(account) when the wallet holds it
GetAccount(ids, id) == IF id \in Range(ids) THEN id ELSE None

\* A buggy selection: with several accounts and no identifier, the first one.
SelectAccountFirst(ids, uuid) ==
    LET chosen ==
          IF uuid # None THEN [ok |-> TRUE, id |-> uuid, err |-> ""]
          ELSE IF Len(ids) = 0
               THEN [ok |-> FALSE, id |-> None, err |-> "NoAccounts"]
               ELSE [ok |-> TRUE, id |-> ids[1], err |-> ""]
    IN IF ~chosen.ok
       THEN [account |-> None, err |-> chosen.err]
       ELSE IF GetAccount(ids, chosen.id) = None
            THEN [account |-> None, err |-> "AccountNotFound"]
            ELSE [account |-> GetAccount(ids, chosen.id), err |-> ""]

\* select_account(db_data, account_uuid), with ids what get_account_ids gives
SelectAccountResult(ids, uuid) ==
    LET chosen ==
          IF uuid # None THEN [ok |-> TRUE, id |-> uuid, err |-> ""]
          ELSE IF Len(ids) = 0
               THEN [ok |-> FALSE, id |-> None, err |-> "NoAccounts"]
               ELSE IF Len(ids) = 1
                    THEN [ok |-> TRUE, id |-> ids[1], err |-> ""]
                    ELSE [ok |-> FALSE, id |-> None,
                          err |-> "AmbiguousAccount"]
    IN IF ~chosen.ok
       THEN [account |-> None, err |-> chosen.err]
       ELSE IF GetAccount(ids, chosen.id) = None
            THEN [account |-> None, err |-> "AccountNotFound"]
            ELSE [account |-> GetAccount(ids, chosen.id), err |-> ""]

\* BalanceOptions::run: let account = select_account(&db_data, self.account_id)?
SelectAccount ==
    /\ bPc = "select"
    /\ LET r == SelectAccountResult(account_ids, account_uuid) IN
         /\ bAccount' = r.account
         /\ bErr' = r.err
         /\ bPc' = IF r.err = "" THEN "selected" ELSE "failed"
    /\ UNCHANGED <<account_ids, account_uuid, bAddress, convert, printer,
                   fetches, warned, summary, output, fsVars, runVars,
                   histVars, callVars>>

(***************************************************************************)
(* The balance command: the report                                         *)
(***************************************************************************)

\* zcash_protocol::value::COIN: zatoshis in one ZEC.
COIN == 100000000

\* The currency codes --convert accepts in the model: the one the rate source
\* supports and one it does not.
Currencies == {"USD", "EUR"}

\* The USD/ZEC rates get_latest_zec_to_usd_rate may return.
Rates == 1 .. MaxRate

\* Spendable values of a pool, in zatoshis.
Amounts == 0 .. MaxAmount

\* Progress ratios: a numerator of at most the denominator, 0/0 among them.
Ratios ==
    {r \in [some : {TRUE}, n : 0 .. MaxProgress, d : 0 .. MaxProgress] :
        r.n <= r.d}

\* What get_wallet_summary may return for a wallet whose accounts are ids and
\* whose selected account is acct: nothing, or a summary that holds a balance
\* for every account or for every account but the selected one.
Summaries(ids, acct) ==
    {NoSummary} \cup
    [some : {TRUE}, holds : {Range(ids), Range(ids) \ {acct}},
     sapling : Amounts, orchard : Amounts,
     scan : Ratios, recovery : Ratios \cup {NoRatio}]

\* a / b rounded to the nearest integer (no tie occurs for b below 64 when a
\* is a multiple of 100000).
RoundDiv(a, b) == (2 * a + b) \div (2 * b)

\* format!("{:0.3}%", (n as f64) * 100f64 / (d as f64)): the percentage in
\* thousandths, or what IEEE 754 division by zero gives.
RenderPercent(r) ==
    IF r.d = 0
    THEN [kind |-> IF r.n = 0 THEN "NaN" ELSE "inf", milli |-> 0]
    ELSE [kind |-> "number", milli |-> RoundDiv(100000 * r.n, r.d)]

\* ValuePrinter::with_exchange_rate after the rate has been fetched: only USD
\* is converted, any other currency is warned about.
WithExchangeRate(currency, rate) ==
    IF currency = "USD"
    THEN [printer |-> [conversion |-> TRUE, currency |-> currency,
                       rate |-> rate],
          warned |-> {}]
    ELSE [printer |-> ZecOnly, warned |-> {currency}]

\* ValuePrinter::format: the asset amount, and with a conversion the fiat
\* figure rate * value / COIN, kept here as an exact fraction.
FormatValue(pr, value) ==
    [zec |-> value, converted |-> pr.conversion, currency |-> pr.currency,
     fiatNum |-> pr.rate * value, fiatDen |-> COIN]

NoPercent == [kind |-> "none", milli |-> 0]
NoValue == [zec |-> None, converted |-> FALSE, currency |-> NoCurrency,
            fiatNum |-> 0, fiatDen |-> COIN]

\* One println! of the report.
Line(label, pct, frac, value) ==
    [label |-> label, pct |-> pct, frac |-> frac, value |-> value]

InsufficientLine == Line("Insufficient", NoPercent, NoRatio, NoValue)

\* A buggy report: the address is printed before the balance is looked up.
ReportAddressFirst(s, acct, address, pr) ==
    IF ~s.some
    THEN [err |-> "", output |-> <<InsufficientLine>>]
    ELSE IF acct \notin s.holds
         THEN [err |-> "AccountMissingFromSummary",
               output |-> <<Line("Address", NoPercent, NoRatio, NoValue)>>]
         ELSE [err |-> "",
               output |-> <<Line("Address", NoPercent, NoRatio, NoValue)>>]

\* A buggy report: without a summary a zero balance is printed.
ReportZeroUnsynced(s, acct, address, pr) ==
    IF ~s.some
    THEN [err |-> "",
          output |-> <<InsufficientLine,
                       Line("Balance", NoPercent, NoRatio,
                            FormatValue(pr, 0))>>]
    ELSE [err |-> IF acct \notin s.holds
                  THEN "AccountMissingFromSummary" ELSE "",
          output |-> <<>>]

\* BalanceOptions::run from the match on the summary: the lines printed and
\* the error returned.
Report(s, acct, address, pr) ==
    IF ~s.some
    THEN [err |-> "", output |-> <<InsufficientLine>>]
    ELSE IF acct \notin s.holds
         THEN [err |-> "AccountMissingFromSummary", output |-> <<>>]
         ELSE [err |-> "",
               output |->
                   <<Line("Address", NoPercent, NoRatio, NoValue),
                     Line("Height", NoPercent, NoRatio, NoValue),
                     Line("Synced", RenderPercent(s.scan), s.scan, NoValue)>>
                   \o (IF s.recovery.some
                       THEN <<Line("Recovered", RenderPercent(s.recovery),
                                   s.recovery, NoValue)>>
                       ELSE <<>>)
                   \o <<Line("Balance", NoPercent, NoRatio,
                             FormatValue(pr, s.sapling + s.orchard)),
                        Line("Sapling", NoPercent, NoRatio,
                             FormatValue(pr, s.sapling)),
                        Line("Orchard", NoPercent, NoRatio,
                             FormatValue(pr, s.orchard)),
                        Line("Unshielded", NoPercent, NoRatio,
                             FormatValue(pr, 0))>>]

\* run returns Err(e) from the balance command.
BalanceFail(e) ==
    /\ bPc' = "failed"
    /\ bErr' = e

\* db_data.get_last_generated_address_matching(..)?.ok_or(InvalidRecipient)?
GetAddress ==
    /\ bPc = "selected"
    /\ \/ /\ BalanceFail("InvalidRecipient")
          /\ UNCHANGED bAddress
       \/ /\ bAddress' = bAccount
          /\ bPc' = "address"
          /\ UNCHANGED bErr
    /\ UNCHANGED <<account_ids, account_uuid, bAccount, convert, printer,
                   fetches, warned, summary, output, fsVars, runVars,
                   histVars, callVars>>

\* let printer = if let Some(currency) = self.convert { tor_client(..).await?;
\* ValuePrinter::with_exchange_rate(&tor, currency).await? } else { ZecOnly }
MakePrinter ==
    /\ bPc = "address"
    /\ \E cur \in {NoCurrency} \cup Currencies :
         /\ convert' = cur
         /\ IF cur = NoCurrency
            THEN /\ printer' = ZecOnly
                 /\ bPc' = "printer"
                 /\ UNCHANGED <<bErr, fetches, warned>>
            ELSE \/ /\ BalanceFail("Tor")
                    /\ UNCHANGED <<printer, fetches, warned>>
                 \/ /\ fetches' = fetches + 1
                    /\ BalanceFail("ExchangeRate")
                    /\ UNCHANGED <<printer, warned>>
                 \/ \E r \in Rates :
                      /\ fetches' = fetches + 1
                      /\ printer' = WithExchangeRate(cur, r).printer
                      /\ warned' = warned \cup WithExchangeRate(cur, r).warned
                      /\ bPc' = "printer"
                      /\ UNCHANGED bErr
    /\ UNCHANGED <<account_ids, account_uuid, bAccount, bAddress, summary,
                   output, fsVars, runVars, histVars, callVars>>

\* if let Some(wallet_summary) = db_data.get_wallet_summary(..)? { .. } else
\* { println!("Insufficient information ..") } and Ok(())
ReportSummary ==
    /\ bPc = "printer"
    /\ \E s \in Summaries(account_ids, bAccount) :
         LET r == Report(s, bAccount, bAddress, printer) IN
           /\ summary' = s
           /\ output' = r.output
           /\ bErr' = r.err
           /\ bPc' = IF r.err = "" THEN "done" ELSE "failed"
    /\ UNCHANGED <<account_ids, account_uuid, bAccount, bAddress, convert,
                   printer, fetches, warned, fsVars, runVars, histVars,
                   callVars>>

InitIdle ==
    /\ idFile = NoFile
    /\ walletDir = "none"
    /\ config = NoConfig
    /\ walletDb = "none"
    /\ accounts = {}
    /\ pc = [p \in Procs |-> "idle"]
    /\ err = [p \in Procs |-> ""]
    /\ chain_tip = [p \in Procs |-> None]
    /\ recipients = [p \in Procs |-> {}]
    /\ phrase = [p \in Procs |-> EmptyPhrase]
    /\ mnemonic = [p \in Procs |-> NoMnemonic]
    /\ recover_until = [p \in Procs |-> None]
    /\ explicit = [p \in Procs |-> None]
    /\ birthday_height = [p \in Procs |-> None]
    /\ request = [p \in Procs |-> None]
    /\ birthday = [p \in Procs |-> NoBirthday]
    /\ seedArr = [p \in Procs |-> "none"]
    /\ secret = [p \in Procs |-> "none"]
    /\ netOk = [p \in Procs |-> {}]
    /\ sawIdentity = [p \in Procs |-> FALSE]
    /\ generated = [p \in Procs |-> FALSE]
    /\ sawConfig = [p \in Procs |-> FALSE]
    /\ createCalls = [p \in Procs |-> 0]

InitBalance ==
    /\ InitIdle
    /\ bPc = "select"
    /\ account_ids \in AccountLists
    /\ account_uuid \in RequestedIds
    /\ BalanceLocalsUnset

NextBalance ==
    \/ SelectAccount
    \/ GetAddress
    \/ MakePrinter
    \/ ReportSummary

SpecBalance == InitBalance /\ [][NextBalance]_vars


(***************************************************************************)
(* Properties of the account selection                                     *)
(***************************************************************************)

\* C10: select_account returns the requested account when the wallet holds
\* it, the only account when none is requested, and otherwise fails with
\* AccountNotFound, NoAccounts or AmbiguousAccount; it never picks a first
\* account among several and never changes the accounts.
SelectAccountCases ==
    [][/\ account_ids' = account_ids
       /\ account_uuid' = account_uuid
       /\ (bPc = "select" /\ bPc' # "select" =>
             /\ (bErr' = "" <=> bAccount' # None)
             /\ (bPc' = "selected" <=> bErr' = "")
             /\ (account_uuid # None /\ account_uuid \in Range(account_ids)
                    => bAccount' = account_uuid)
             /\ (account_uuid # None /\ account_uuid \notin Range(account_ids)
                    => bErr' = "AccountNotFound")
             /\ (account_uuid = None /\ Len(account_ids) = 0
                    => bErr' = "NoAccounts")
             /\ (account_uuid = None /\ Len(account_ids) = 1
                    => bAccount' = account_ids[1])
             /\ (account_uuid = None /\ Len(account_ids) >= 2
                    => bErr' = "AmbiguousAccount"))]_vars

\* C10's case: no identifier given and several accounts in the wallet.
SelectionAmbiguous ==
    /\ bPc = "failed"
    /\ bErr = "AmbiguousAccount"
    /\ account_uuid = None
    /\ Len(account_ids) >= 2

(***************************************************************************)
(* Properties of the balance report                                        *)
(***************************************************************************)

\* C11: a Recovered line for the ratio 0/0 shows a "not recovering" mark and
\* no number, and for a ratio n/d with d > 0 it shows 100 * n / d to three
\* decimals.
RecoveredLineRendering ==
    \A i \in 1 .. Len(output) :
        output[i].label = "Recovered" =>
            /\ (output[i].frac.n = 0 /\ output[i].frac.d = 0
                    => output[i].pct.kind = "notRecovering")
            /\ (output[i].frac.d > 0 =>
                    /\ output[i].pct.kind = "number"
                    /\ 2 * output[i].pct.milli * output[i].frac.d
                         <= 200000 * output[i].frac.n + output[i].frac.d
                    /\ 2 * output[i].pct.milli * output[i].frac.d
                         >= 200000 * output[i].frac.n - output[i].frac.d)

\* C12: for a currency other than USD no exchange rate is requested and the
\* command does not fail on the rate source; the currency is warned about and
\* the values are printed without conversion.
UnsupportedCurrencyNeverFetched ==
    convert \notin {NoCurrency, "USD"} =>
        /\ fetches = 0
        /\ bErr # "ExchangeRate"
        /\ (bErr # "Tor" => printer = ZecOnly /\ convert \in warned)

\* C14: when the summary read holds no balance for the selected account the
\* command fails with AccountMissingFromSummary, and a failed command has
\* printed nothing.
MissingBalanceFailsSilently ==
    /\ (summary.some /\ bAccount \notin summary.holds =>
            bPc = "failed" /\ bErr = "AccountMissingFromSummary")
    /\ (bPc = "failed" => output = <<>>)

\* C14's case: the rate was fetched, the summary lacks the account.
BalanceMissingAfterRateFetch ==
    /\ bPc = "failed"
    /\ bErr = "AccountMissingFromSummary"
    /\ summary.some
    /\ bAccount # None
    /\ summary.holds = Range(account_ids) \ {bAccount}
    /\ printer.conversion

\* C15: with a single account and no identifier the selection does not fail,
\* and when get_wallet_summary returns nothing the command returns Ok having
\* printed the one line that says so and nothing else.
UnsyncedWalletOneLine ==
    [][/\ (Len(account_ids) = 1 /\ account_uuid = None /\ bPc = "select"
              => bPc' \in {"select", "selected"})
       /\ (bPc = "printer" /\ bPc' # "printer" /\ ~summary'.some
              => /\ bPc' = "done"
                 /\ bErr' = ""
                 /\ output' = <<InsufficientLine>>)]_vars

\* C15's case: a single account, no conversion, no summary.
UnsyncedSingleAccountDone ==
    /\ bPc = "done"
    /\ Len(account_ids) = 1
    /\ account_uuid = None
    /\ bAccount = account_ids[1]
    /\ convert = NoCurrency
    /\ ~summary.some
    /\ Len(output) = 1

=============================================================================
